---- MODULE Spec2Model ----
(***************************************************************************)
(* Model of clinicaltrials_downloader.api: the paginated fetcher           *)
(* iterate_download_studies, the cache manager get_studies and the stub    *)
(* upload_zenodo, together with the two files they keep on disk and the    *)
(* remote provider they talk to.                                           *)
(*                                                                         *)
(* Python values that may be missing (None, an absent dictionary key, a    *)
(* file that does not exist) are modelled as sets with at most one         *)
(* element: {} is "missing", {v} is "present with value v".  Strings that  *)
(* the code builds or tests (tokens, the joined field list) are sequences, *)
(* so that the empty string is the empty sequence.                         *)
(***************************************************************************)
EXTENDS Integers, Sequences, FiniteSets, TLC

\* ---------------------------------------------------------------- bounds
\* largest number of pages the provider serves in one session
MaxPages == 3
\* largest number of records the provider puts in one page
MaxPageLen == 2
\* number of download sessions explored
MaxSessions == 1
\* longest cached list present on disk before the first call
MaxInitLen == 1

\* ------------------------------------------------------ program constants
MAXIMUM_PAGE_SIZE == 1000
N_SAMPLE_ROWS == 5
DEFAULT_FIELDS == <<"NCTId", "BriefTitle">>
SLIM_FIELDS ==
    <<"NCTId", "BriefTitle", "Condition", "ConditionMeshTerm", "ConditionMeshId",
      "InterventionName", "InterventionType", "InterventionMeshTerm",
      "InterventionMeshId", "StudyType", "DesignAllocation", "OverallStatus", "Phase",
      "WhyStopped", "SecondaryIdType", "SecondaryId", "StartDate", "StartDateType",
      "ReferencePMID">>

\* ------------------------------------------------------- optional values
None == {}
Some(v) == {v}
Get(o) == CHOOSE v \in o : TRUE

\* variant of Truthy: only None is taken for falsy
TruthyUnlessNone(o) == o # None

\* Python truthiness of `res.get("nextPageToken")`: None and "" are falsy
Truthy(o) == o # None /\ Len(Get(o)) > 0

\* variant of Take: the slice is one record too long
TakeOneMore(s, n) == SubSeq(s, 1, IF Len(s) < n + 1 THEN Len(s) ELSE n + 1)

\* studies[:n]
Take(s, n) == SubSeq(s, 1, IF Len(s) < n THEN Len(s) ELSE n)

\* ",".join(xs)
RECURSIVE Join(_)
Join(xs) == IF Len(xs) = 0 THEN <<>>
            ELSE IF Len(xs) = 1 THEN <<xs[1]>>
            ELSE <<xs[1], ",">> \o Join(Tail(xs))

\* --------------------------------------------------------------- files
\* json.dump(studies, file) through gzip.open(PATH, "wt")
GzipJsonDump(studies) == [format |-> "gzip-json", data |-> studies]
\* json.dump(studies[:N_SAMPLE_ROWS], file, indent=2)
JsonDump(studies) == [format |-> "json", data |-> studies]
\* a file at PATH that gzip/json cannot read back
CorruptFile == [format |-> "corrupt", data |-> <<>>]
\* variant of GzipJsonLoad: the first record of the file is lost on reading
GzipJsonLoadSkippingFirst(file) ==
    IF file.format = "gzip-json"
    THEN Some(IF Len(file.data) = 0 THEN file.data ELSE Tail(file.data))
    ELSE None

\* variant of GzipJsonLoad: an unreadable file is taken for an empty list
GzipJsonLoadLenient(file) == Some(file.data)

\* outcome of json.load(gzip.open(PATH, "rt")): the list, or no value (raises)
GzipJsonLoad(file) == IF file.format = "gzip-json" THEN Some(file.data) ELSE None

\* ------------------------------------------------------------- provider
\* the i-th study record of the result set the provider enumerates in session f
Study(f, i) == [fetch |-> f, idx |-> i]
\* the n records that follow the first k of the result set
Page(f, k, n) == [i \in 1..n |-> Study(f, k + i)]
\* continuation token: a non-empty string naming the page it leads to and the
\* number of records that precede that page
Token(j, k) == <<j, k>>
\* the page a request asks for, and the number of records that precede it;
\* a request without a usable token asks for the first page
NamesNoPage(req) == req.pageToken = None \/ Get(req.pageToken) = <<>>
RequestedPage(req) == IF NamesNoPage(req) THEN 1 ELSE Get(req.pageToken)[1]
Cursor(req) == IF NamesNoPage(req) THEN 0 ELSE Get(req.pageToken)[2]
\* values the provider may report as totalCount: a count that short sessions
\* stay below and long sessions exceed
TotalCounts == {MaxPageLen}
\* continuation tokens the provider may attach to page j, which ends at record k
NextTokens(j, k) ==
    {None, Some(<<>>)} \cup (IF j < MaxPages THEN {Some(Token(j + 1, k))} ELSE {})
\* page lengths the provider may answer to a request
PageLens(req) == 0..(IF req.pageSize < MaxPageLen THEN req.pageSize ELSE MaxPageLen)
\* JSON bodies the provider may answer to a request in session f
Responses(f, req) ==
    LET j == RequestedPage(req)
        k == Cursor(req)
        counts == IF req.countTotal = None THEN {None}
                  ELSE {Some(c) : c \in TotalCounts}
        wellFormed == UNION { { [totalCount |-> c, studies |-> Some(Page(f, k, n)),
                                 nextPageToken |-> t]
                                : c \in counts, t \in NextTokens(j, k + n) }
                              : n \in PageLens(req) }
        noStudies == { [totalCount |-> c, studies |-> None, nextPageToken |-> None]
                       : c \in counts }
        noTotal == IF req.countTotal = None THEN {}
                   ELSE { [totalCount |-> None, studies |-> Some(Page(f, k, 1)),
                           nextPageToken |-> None] }
    IN wellFormed \cup noStudies \cup noTotal
\* what requests.get(...).json() produces: a body, or no value (it raises)
Outcomes(f, req) == {Some(r) : r \in Responses(f, req)} \cup {None}

\* ---------------------------------------------------------------- state
VARIABLES
    op,          \* the public function being run (or last run)
    force,       \* get_studies' force argument
    args,        \* the other arguments of the call: page_size, fields, client
    pc,          \* position of the running call; "idle" when none is running
    parameters,  \* iterate_download_studies' base query parameters
    request,     \* the last HTTP request issued by the current call
    nrequests,   \* how many HTTP requests the current call has issued
    res,         \* the last JSON body received
    pos,         \* how many records of res["studies"] have been yielded
    total,       \* the progress bar's total
    pbar,        \* the progress bar's counter
    yielded,     \* the records handed to the consumer so far, in order
    nserved,     \* how many records the bodies received in this session carried
    studies,     \* get_studies' collected list
    cache,       \* the file at PATH
    sample,      \* the file at PATH_SAMPLE
    mtime,       \* how many times each file has been written
    disk0,       \* the files as they were when the current call started
    nfetch,      \* number of download sessions started so far
    err,         \* the exception the call ended with, "none" if it has not raised
    ret,         \* the value the call returned
    prev         \* the call completed before the current one

vars == <<op, force, args, pc, parameters, request, nrequests, res, pos, total, pbar,
          yielded, nserved, studies, cache, sample, mtime, disk0, nfetch, err, ret, prev>>

genVars == <<parameters, request, nrequests, res, pos, total, pbar, yielded, nserved>>
diskVars == <<cache, sample, mtime>>

NoArgs == [page_size |-> None, fields |-> None, client |-> None]
NoRequest == [pageSize |-> 0, fields |-> None, countTotal |-> None, pageToken |-> None]
NoResponse == [totalCount |-> None, studies |-> None, nextPageToken |-> None]
NoCall == [op |-> "none", force |-> FALSE, err |-> "none", ret |-> None,
           downloaded |-> FALSE, mtime |-> [cache |-> 0, sample |-> 0]]
Disk == [cache |-> cache, sample |-> sample, mtime |-> mtime]

\* the list a previous run (session 0) left in the cache
InitList(n) == Page(0, 0, n)

InitDisks ==
    {[cache |-> None, sample |-> None]}
    \cup {[cache |-> Some(GzipJsonDump(InitList(n))),
           sample |-> Some(JsonDump(Take(InitList(n), N_SAMPLE_ROWS)))] : n \in 0..MaxInitLen}
    \cup {[cache |-> Some(CorruptFile),
            sample |-> Some(JsonDump(Take(InitList(MaxInitLen), N_SAMPLE_ROWS)))]}

Init ==
    /\ op = "none" /\ force = FALSE /\ args = NoArgs /\ pc = "idle"
    /\ parameters = [pageSize |-> MAXIMUM_PAGE_SIZE, fields |-> None]
    /\ request = NoRequest /\ nrequests = 0
    /\ res = NoResponse /\ pos = 0 /\ total = None /\ pbar = 0
    /\ yielded = <<>> /\ nserved = 0 /\ studies = <<>>
    /\ \E d \in InitDisks : cache = d.cache /\ sample = d.sample
    /\ mtime = [cache |-> 0, sample |-> 0]
    /\ disk0 = Disk
    /\ nfetch = 0 /\ err = "none" /\ ret = None
    /\ prev = NoCall

\* ------------------------------------------- iterate_download_studies
\* variant of EffectivePageSize: the clamp is missing
EffectivePageSizeUnclamped(page_size) ==
    IF page_size = None THEN MAXIMUM_PAGE_SIZE ELSE Get(page_size)

\* page_size after the None default and the clamp
EffectivePageSize(page_size) ==
    LET p == IF page_size = None THEN MAXIMUM_PAGE_SIZE ELSE Get(page_size)
    IN IF p > MAXIMUM_PAGE_SIZE THEN MAXIMUM_PAGE_SIZE ELSE p

\* variant of Parameters: the caller's field list is the one joined
ParametersJoiningFields(page_size, fields) ==
    [pageSize |-> EffectivePageSize(page_size),
     fields |-> IF fields # None THEN Some(Join(Get(fields))) ELSE None]

\* the `parameters` dictionary
Parameters(page_size, fields) ==
    [pageSize |-> EffectivePageSize(page_size),
     fields |-> IF fields # None THEN Some(Join(DEFAULT_FIELDS)) ELSE None]

\* params of the first GET
FirstRequest(params) ==
    [pageSize |-> params.pageSize, fields |-> params.fields,
     countTotal |-> Some("true"), pageToken |-> None]

\* variant of NextRequest: the continuation token is left out of the params
NextRequestWithoutToken(params, next_token) ==
    [pageSize |-> params.pageSize, fields |-> params.fields,
     countTotal |-> None, pageToken |-> None]

\* variant of NextRequest: the count is asked for again on every page
NextRequestWithCountTotal(params, next_token) ==
    [pageSize |-> params.pageSize, fields |-> params.fields,
     countTotal |-> Some("true"), pageToken |-> Some(next_token)]

\* params of a token-following GET
NextRequest(params, next_token) ==
    [pageSize |-> params.pageSize, fields |-> params.fields,
     countTotal |-> None, pageToken |-> Some(next_token)]

\* res.get("nextPageToken")
NextPageToken(r) == r.nextPageToken

\* the values a call starts with
StartCall(o, f, a) ==
    /\ op' = o /\ force' = f /\ args' = a
    /\ prev' = [op |-> op, force |-> force, err |-> err, ret |-> ret,
                downloaded |-> nrequests > 0, mtime |-> mtime]
    /\ disk0' = Disk
    /\ request' = NoRequest /\ nrequests' = 0
    /\ res' = NoResponse /\ pos' = 0 /\ total' = None /\ pbar' = 0
    /\ yielded' = <<>> /\ nserved' = 0 /\ studies' = <<>>

\* the generator is created and waits for its first next()
StartSession(page_size, fields) ==
    /\ nfetch < MaxSessions
    /\ nfetch' = nfetch + 1
    /\ parameters' = Parameters(page_size, fields)
    /\ pc' = "start"

\* an exception leaves the generator and every frame above it
Raise(e) ==
    /\ pc' = "idle" /\ err' = e /\ ret' = None

\* variant of Receive: a GET that raises is caught and the page asked for again
ReceiveRetrying(req, out, first) ==
    /\ request' = req
    /\ nrequests' = nrequests + 1
    /\ IF out = None
       THEN UNCHANGED <<pc, err, ret, res, pos, total, nserved>>
       ELSE LET r == Get(out) IN
            /\ res' = r
            /\ nserved' = nserved + (IF r.studies = None THEN 0 ELSE Len(Get(r.studies)))
            /\ IF first /\ r.totalCount = None
               THEN Raise("KeyError") /\ UNCHANGED <<pos, total>>
               ELSE /\ total' = IF first THEN r.totalCount ELSE total
                    /\ IF r.studies = None
                       THEN Raise("KeyError") /\ UNCHANGED pos
                       ELSE /\ pos' = 0 /\ pc' = "yield"
                            /\ UNCHANGED <<err, ret>>

\* variant of Receive: the total is read with res.get("totalCount")
ReceiveWithoutTotal(req, out, first) ==
    /\ request' = req
    /\ nrequests' = nrequests + 1
    /\ IF out = None
       THEN /\ Raise("RequestException")
            /\ UNCHANGED <<res, pos, total, nserved>>
       ELSE LET r == Get(out) IN
            /\ res' = r
            /\ nserved' = nserved + (IF r.studies = None THEN 0 ELSE Len(Get(r.studies)))
            /\ total' = IF first THEN r.totalCount ELSE total
            /\ IF r.studies = None
               THEN Raise("KeyError") /\ UNCHANGED pos
               ELSE /\ pos' = 0 /\ pc' = "yield"
                    /\ UNCHANGED <<err, ret>>

\* the body received by a GET is read: res["totalCount"] on the first page,
\* res["studies"] on every page
Receive(req, out, first) ==
    /\ request' = req
    /\ nrequests' = nrequests + 1
    /\ IF out = None
       THEN /\ Raise("RequestException")
            /\ UNCHANGED <<res, pos, total, nserved>>
       ELSE LET r == Get(out) IN
            /\ res' = r
            /\ nserved' = nserved + (IF r.studies = None THEN 0 ELSE Len(Get(r.studies)))
            /\ IF first /\ r.totalCount = None
               THEN Raise("KeyError") /\ UNCHANGED <<pos, total>>
               ELSE /\ total' = IF first THEN r.totalCount ELSE total
                    /\ IF r.studies = None
                       THEN Raise("KeyError") /\ UNCHANGED pos
                       ELSE /\ pos' = 0 /\ pc' = "yield"
                            /\ UNCHANGED <<err, ret>>

\* first next(): lines 135-154 up to the first yield
GetFirstPage ==
    /\ pc = "start"
    /\ LET req == FirstRequest(parameters) IN
       \E out \in Outcomes(nfetch, req) : Receive(req, out, TRUE)
    /\ UNCHANGED <<op, force, args, parameters, pbar, yielded, studies, diskVars, disk0,
                   nfetch, prev>>

\* variant of YieldStudy: every record is also streamed into the cache file
YieldStudyWritingCache ==
    /\ pc = "yield"
    /\ pos < Len(Get(res.studies))
    /\ yielded' = Append(yielded, Get(res.studies)[pos + 1])
    /\ pos' = pos + 1
    /\ cache' = IF op = "iterate_download_studies" THEN cache
                ELSE Some([format |-> "gzip-json", data |-> yielded'])
    /\ UNCHANGED <<op, force, args, pc, parameters, request, nrequests, res, total, pbar,
                   nserved, studies, sample, mtime, disk0, nfetch, err, ret, prev>>

\* yield from res["studies"]: one record reaches the consumer
YieldStudy ==
    /\ pc = "yield"
    /\ pos < Len(Get(res.studies))
    /\ yielded' = Append(yielded, Get(res.studies)[pos + 1])
    /\ pos' = pos + 1
    /\ UNCHANGED <<op, force, args, pc, parameters, request, nrequests, res, total, pbar,
                   nserved, studies, diskVars, disk0, nfetch, err, ret, prev>>

\* pbar.update after a page: page_size after the first page, len(studies) after
PbarAfterPage ==
    pbar + (IF nrequests = 1 THEN parameters.pageSize ELSE Len(Get(res.studies)))

\* variant of GetNextPage: the next page is fetched before the current one
\* has been handed out
GetNextPagePrefetching ==
    /\ pc = "yield"
    /\ Truthy(NextPageToken(res))
    /\ pbar' = PbarAfterPage
    /\ LET req == NextRequest(parameters, Get(NextPageToken(res))) IN
       \E out \in Outcomes(nfetch, req) : Receive(req, out, FALSE)
    /\ UNCHANGED <<op, force, args, parameters, yielded, studies, diskVars, disk0,
                   nfetch, prev>>

\* the page is used up and the response carries a token: the next GET
GetNextPage ==
    /\ pc = "yield"
    /\ pos = Len(Get(res.studies))
    /\ Truthy(NextPageToken(res))
    /\ pbar' = PbarAfterPage
    /\ LET req == NextRequest(parameters, Get(NextPageToken(res))) IN
       \E out \in Outcomes(nfetch, req) : Receive(req, out, FALSE)
    /\ UNCHANGED <<op, force, args, parameters, yielded, studies, diskVars, disk0,
                   nfetch, prev>>

\* variant of Exhausted: the generator also ends once totalCount records
\* have been yielded
ExhaustedAtTotal ==
    /\ pc = "yield"
    /\ pos = Len(Get(res.studies))
    /\ \/ ~Truthy(NextPageToken(res))
       \/ total # None /\ Len(yielded) >= Get(total)
    /\ pbar' = PbarAfterPage
    /\ IF op = "iterate_download_studies"
       THEN pc' = "idle" /\ UNCHANGED studies
       ELSE pc' = "write_sample" /\ studies' = yielded
    /\ UNCHANGED <<op, force, args, parameters, request, nrequests, res, pos, total, yielded,
                   nserved, diskVars, disk0, nfetch, err, ret, prev>>

\* the page is used up and the response carries no token: the generator ends
Exhausted ==
    /\ pc = "yield"
    /\ pos = Len(Get(res.studies))
    /\ ~Truthy(NextPageToken(res))
    /\ pbar' = PbarAfterPage
    /\ IF op = "iterate_download_studies"
       THEN pc' = "idle" /\ UNCHANGED studies
       ELSE pc' = "write_sample" /\ studies' = yielded
    /\ UNCHANGED <<op, force, args, parameters, request, nrequests, res, pos, total, yielded,
                   nserved, diskVars, disk0, nfetch, err, ret, prev>>

\* a caller iterates over iterate_download_studies(page_size=..., fields=...)
PageSizeArgs == {None, Some(1), Some(MAXIMUM_PAGE_SIZE + 1), Some(5 * MAXIMUM_PAGE_SIZE)}
FieldsArgs == {None, Some(SLIM_FIELDS)}
\* the argument pairs tried: every combination, and the empty field list
IterateArgs == (PageSizeArgs \X FieldsArgs) \cup {<<None, Some(<<>>)>>}

CallIterateDownloadStudies ==
    /\ pc = "idle"
    /\ \E a \in IterateArgs :
          LET page_size == a[1]
              fields == a[2]
          IN
          /\ StartSession(page_size, fields)
          /\ StartCall("iterate_download_studies", FALSE,
                       [page_size |-> page_size, fields |-> fields, client |-> None])
    /\ err' = "none" /\ ret' = None
    /\ UNCHANGED diskVars

\* ---------------------------------------------------------- get_studies
\* variant of Refreshes: force is ignored while a cache exists
RefreshesOnlyWhenMissing(f) == cache = None

\* variant of Refreshes: the cache is never served
RefreshesAlways(f) == TRUE

\* the download branch is taken
Refreshes(f) == ~(cache # None /\ ~f)

\* get_studies(force=f) with the cache served from disk
CallGetStudiesCached ==
    /\ pc = "idle"
    /\ \E f \in BOOLEAN :
          /\ ~Refreshes(f)
          /\ StartCall("get_studies", f, NoArgs)
    /\ LET rv == GzipJsonLoad(Get(cache)) IN
       IF rv = None THEN Raise("ReadError")
       ELSE pc' = "idle" /\ err' = "none" /\ ret' = rv
    /\ UNCHANGED <<parameters, diskVars, nfetch>>

\* get_studies(force=f) starting a download
CallGetStudiesRefresh ==
    /\ pc = "idle"
    /\ \E f \in BOOLEAN :
          /\ Refreshes(f)
          /\ StartCall("get_studies", f, NoArgs)
    /\ StartSession(Some(MAXIMUM_PAGE_SIZE), None)
    /\ err' = "none" /\ ret' = None
    /\ UNCHANGED diskVars

\* the sample file is written
WriteSample ==
    /\ pc = "write_sample"
    /\ sample' = Some(JsonDump(Take(studies, N_SAMPLE_ROWS)))
    /\ mtime' = [mtime EXCEPT !.sample = @ + 1]
    /\ pc' = "write_cache"
    /\ UNCHANGED <<op, force, args, genVars, studies, cache, disk0, nfetch, err, ret, prev>>

\* variant of WriteCache: upload_zenodo returns after the refresh
WriteCacheThenReturn ==
    /\ pc = "write_cache"
    /\ cache' = Some(GzipJsonDump(studies))
    /\ mtime' = [mtime EXCEPT !.cache = @ + 1]
    /\ pc' = "idle"
    /\ err' = "none"
    /\ ret' = IF op = "upload_zenodo" THEN None ELSE Some(studies)
    /\ UNCHANGED <<op, force, args, genVars, studies, sample, disk0, nfetch, prev>>

\* variant of WriteCache: the file is opened for appending, so what was in
\* it stays in front of the new list
WriteCacheAppending ==
    /\ pc = "write_cache"
    /\ cache' = IF cache = None THEN Some(GzipJsonDump(studies)) ELSE Some(CorruptFile)
    /\ mtime' = [mtime EXCEPT !.cache = @ + 1]
    /\ pc' = "idle"
    /\ IF op = "upload_zenodo"
       THEN err' = "NotImplementedError" /\ ret' = None
       ELSE err' = "none" /\ ret' = Some(studies)
    /\ UNCHANGED <<op, force, args, genVars, studies, sample, disk0, nfetch, prev>>

\* the cache file is written and get_studies returns; upload_zenodo, when it
\* is the caller, goes on to its raise
WriteCache ==
    /\ pc = "write_cache"
    /\ cache' = Some(GzipJsonDump(studies))
    /\ mtime' = [mtime EXCEPT !.cache = @ + 1]
    /\ pc' = "idle"
    /\ IF op = "upload_zenodo"
       THEN err' = "NotImplementedError" /\ ret' = None
       ELSE err' = "none" /\ ret' = Some(studies)
    /\ UNCHANGED <<op, force, args, genVars, studies, sample, disk0, nfetch, prev>>

\* -------------------------------------------------------- upload_zenodo
\* upload_zenodo(client): a client is passed in, or the default one is
\* imported and constructed, which succeeds or raises
CallUploadZenodo ==
    /\ pc = "idle"
    /\ \E client \in {None, Some("client")}, constructed \in BOOLEAN :
          /\ StartCall("upload_zenodo", TRUE,
                       [page_size |-> None, fields |-> None, client |-> client])
          /\ IF client = None /\ ~constructed
             THEN Raise("ImportError") /\ UNCHANGED <<parameters, nfetch>>
             ELSE /\ StartSession(Some(MAXIMUM_PAGE_SIZE), None)
                  /\ err' = "none" /\ ret' = None
    /\ UNCHANGED diskVars

Next ==
    \/ CallIterateDownloadStudies
    \/ GetFirstPage
    \/ YieldStudy
    \/ GetNextPage
    \/ Exhausted
    \/ CallGetStudiesCached
    \/ CallGetStudiesRefresh
    \/ WriteSample
    \/ WriteCache
    \/ CallUploadZenodo

Spec == Init /\ [][Next]_vars

\* a step of a running download session
SessionStep == GetFirstPage \/ YieldStudy \/ GetNextPage \/ Exhausted

\* the fetcher on its own: callers that iterate over the generator to its end
FetcherNext == CallIterateDownloadStudies \/ SessionStep

\* the code is synchronous and every GET returns or raises within its timeout:
\* a session that can take a step takes one
FetcherSpec == Init /\ [][FetcherNext]_vars /\ WF_vars(SessionStep)

\* ============================================================ properties
\* s is a prefix of t
IsPrefix(s, t) == Len(s) <= Len(t) /\ SubSeq(t, 1, Len(s)) = s
\* errors a page request can end with
FetchErrors == {"RequestException", "KeyError"}
\* the call runs, or ran, a download session
InSession == nrequests > 0
\* the session's generator ran to its normal end
SessionExhausted ==
    InSession /\ pc \notin {"start", "yield"} /\ err \notin FetchErrors
\* a call that refreshes the cache: get_studies, alone or under upload_zenodo
IsRefresh == op \in {"get_studies", "upload_zenodo"}
\* the refresh has ended with a failed page request
RefreshFailed == IsRefresh /\ pc = "idle" /\ err \in FetchErrors
\* the refresh ran to the end of get_studies
RefreshSucceeded == IsRefresh /\ pc = "idle" /\ SessionExhausted

\* C1: a provider serving K pages, the last one without a continuation token:
\* the records reach the consumer in page order and in within-page order at
\* every moment, the session ends only on a page without a usable token, and
\* when it has ended it has yielded every record served (the sum of the page
\* sizes) with exactly K requests.
C1_YieldsAllPagesInOrder ==
    /\ InSession =>
          /\ Len(yielded) <= nserved
          /\ yielded = [i \in 1..Len(yielded) |-> Study(nfetch, i)]
    /\ SessionExhausted => res.nextPageToken \in {None, Some(<<>>)}
    /\ (SessionExhausted /\ res.nextPageToken = None) =>
          /\ Len(yielded) = nserved
          /\ nrequests = RequestedPage(request)

\* C1 witness: a session of MaxPages full pages has ended on a page without token
C1_Witness ==
    /\ SessionExhausted /\ res.nextPageToken = None
    /\ nrequests = MaxPages /\ Len(yielded) = MaxPages * MaxPageLen

\* C2: when a page request fails during a refresh, get_studies raises and both
\* files are exactly what they were before the call.
C2_FailedRefreshLeavesDisk ==
    RefreshFailed => /\ ret = None
                     /\ cache = disk0.cache /\ sample = disk0.sample
                     /\ mtime = disk0.mtime

\* C2 witness: the request for a later page failed after records had been
\* collected, with a previous cache on disk
C2_Witness ==
    /\ RefreshFailed /\ err = "RequestException"
    /\ nrequests >= 2 /\ Len(yielded) >= 1
    /\ disk0.cache # None /\ disk0.sample # None

\* the list the provider served in the current session, in fetch order
Downloaded == [i \in 1..nserved |-> Study(nfetch, i)]
\* the records of a file that may be missing
RecordsOf(f) == IF f = None THEN {} ELSE {Get(f).data[i] : i \in 1..Len(Get(f).data)}
\* the cache file is present and readable
Readable(f) == f # None /\ Get(f).format = "gzip-json"

\* C3: whenever both files are there and the cache can be read, the sample's
\* records are a prefix of the cached list (the same fetch wrote both).
C3_SampleIsPrefixOfCache ==
    (sample # None /\ Readable(cache)) => IsPrefix(Get(sample).data, Get(cache).data)

\* C4: after a refresh that completed and produced list L, the sample file
\* holds the first five entries of L when L has at least five, all of L
\* otherwise; get_studies returns L.
C4_SampleIsFirstRows ==
    RefreshSucceeded =>
       /\ op = "get_studies" => ret = Some(studies)
       /\ sample = Some([format |-> "json",
                         data |-> IF Len(studies) >= N_SAMPLE_ROWS
                                  THEN SubSeq(studies, 1, N_SAMPLE_ROWS)
                                  ELSE studies])

\* C4 witness: a completed refresh whose list is longer than the sample
C4_Witness == RefreshSucceeded /\ Len(studies) > N_SAMPLE_ROWS

\* C5: get_studies(force=True) never serves the cache: it issues requests,
\* the first of them a first-page request at the maximum page size, and when
\* the download succeeds the cache holds exactly the downloaded list in fetch
\* order, the sample its prefix, the return value is that list, and no record
\* of the previous files remains in either file.
C5_ForcedRefreshReplaces ==
    /\ (op = "get_studies" /\ force /\ pc = "idle") => (InSession /\ err # "ReadError")
    /\ (IsRefresh /\ force /\ nrequests = 1) =>
          request = [pageSize |-> MAXIMUM_PAGE_SIZE, fields |-> None,
                     countTotal |-> Some("true"), pageToken |-> None]
    /\ (RefreshSucceeded /\ force) =>
          /\ cache = Some([format |-> "gzip-json", data |-> Downloaded])
          /\ sample # None /\ IsPrefix(Get(sample).data, Downloaded)
          /\ Len(Get(sample).data) = (IF nserved < N_SAMPLE_ROWS THEN nserved
                                      ELSE N_SAMPLE_ROWS)
          /\ op = "get_studies" => ret = Some(Downloaded)
          /\ (RecordsOf(disk0.cache) \cup RecordsOf(disk0.sample))
                \cap (RecordsOf(cache) \cup RecordsOf(sample)) = {}

\* C5 witness: a forced get_studies over an existing non-empty cache succeeded
C5_Witness ==
    /\ op = "get_studies" /\ force /\ RefreshSucceeded
    /\ RecordsOf(disk0.cache) # {} /\ RecordsOf(disk0.sample) # {}
    /\ nserved >= 2

\* C6: two get_studies(force=False) calls in a row, both returning: the second
\* returns the same list as the first and does not write the cache file.
C6_SecondCallSameList ==
    (/\ prev.op = "get_studies" /\ ~prev.force /\ prev.err = "none"
     /\ op = "get_studies" /\ ~force /\ pc = "idle")
    => /\ err = "none"
       /\ ret = prev.ret
       /\ mtime.cache = prev.mtime.cache

\* C6 witness: the first call was a cache miss that downloaded a non-empty
\* list, the second call has returned
C6_Witness ==
    /\ prev.op = "get_studies" /\ ~prev.force /\ prev.err = "none"
    /\ prev.downloaded
    /\ op = "get_studies" /\ ~force /\ pc = "idle"
    /\ ret # None /\ Len(Get(ret)) >= 2

\* C7: get_studies(force=False) over a readable cache returns exactly the
\* stored list in a single step, issues no HTTP request and leaves both files
\* as they were.
C7_CacheHitReadsOnly ==
    (op = "get_studies" /\ ~force /\ Readable(disk0.cache)) =>
       /\ pc = "idle" /\ err = "none"
       /\ ret = Some(Get(disk0.cache).data)
       /\ nrequests = 0
       /\ cache = disk0.cache /\ sample = disk0.sample /\ mtime = disk0.mtime

\* C7 witness: a cache hit that returned a non-empty list, a sample being on disk
C7_Witness ==
    /\ op = "get_studies" /\ ~force /\ Readable(disk0.cache)
    /\ ret # None /\ Len(Get(ret)) >= 1 /\ disk0.sample # None

\* C8: get_studies(force=False) over a cache file that cannot be read fails:
\* no list is returned, no HTTP request is issued, and both files stay as
\* they were.
C8_CorruptCacheIsFatal ==
    (op = "get_studies" /\ ~force /\ disk0.cache # None /\ ~Readable(disk0.cache)) =>
       /\ pc = "idle" /\ err = "ReadError" /\ ret = None
       /\ nrequests = 0
       /\ cache = disk0.cache /\ sample = disk0.sample /\ mtime = disk0.mtime

\* C8 witness: the call has failed on a corrupt cache next to a sample file
C8_Witness ==
    /\ op = "get_studies" /\ ~force /\ disk0.cache = Some(CorruptFile)
    /\ err = "ReadError" /\ sample # None

\* C9: every request carries a pageSize of at most the provider maximum; a
\* session asked for a page size above the maximum, and every get_studies
\* refresh, sends exactly the maximum in each request, and the call is not
\* turned down: it goes on to its first request.
C9_PageSizeClamped ==
    /\ InSession => request.pageSize <= MAXIMUM_PAGE_SIZE
    /\ (InSession /\ IsRefresh) => request.pageSize = MAXIMUM_PAGE_SIZE
    /\ (op = "iterate_download_studies" /\ args.page_size # None
          /\ Get(args.page_size) > MAXIMUM_PAGE_SIZE) =>
          /\ parameters.pageSize = MAXIMUM_PAGE_SIZE
          /\ InSession => request.pageSize = MAXIMUM_PAGE_SIZE
          /\ pc = "idle" => InSession

\* C9 witness: a session asked for five times the maximum has sent a
\* token-following request
C9_Witness ==
    /\ op = "iterate_download_studies"
    /\ args.page_size = Some(5 * MAXIMUM_PAGE_SIZE)
    /\ nrequests >= 2 /\ request.pageToken # None

\* C10 as stated: once upload_zenodo's refresh has run, whatever its outcome,
\* the error the caller sees is NotImplementedError.
C10_AlwaysNotImplemented ==
    (op = "upload_zenodo" /\ pc = "idle" /\ InSession) => err = "NotImplementedError"

\* C10 as amended: upload_zenodo never returns normally; the caller sees
\* NotImplementedError exactly when the forced refresh completed and wrote the
\* cache; when a page request fails the caller sees that error, with the
\* files untouched; when no client could be built no request is issued.
C10_NotImplementedAfterRefresh ==
    (op = "upload_zenodo" /\ pc = "idle") =>
       /\ err \in {"NotImplementedError", "ImportError"} \cup FetchErrors
       /\ ret = None
       /\ err = "NotImplementedError" <=>
             (SessionExhausted /\ mtime.cache = disk0.mtime.cache + 1
                /\ cache = Some([format |-> "gzip-json", data |-> Downloaded]))
       /\ err \in FetchErrors <=> (InSession /\ mtime = disk0.mtime)
       /\ err = "ImportError" => (~InSession /\ args.client = None)

\* C10 witness: upload_zenodo without a client has refreshed and raised
C10_Witness ==
    /\ op = "upload_zenodo" /\ pc = "idle" /\ args.client = None
    /\ err = "NotImplementedError" /\ nserved >= 1

\* the last GET raised instead of producing a body: res is still what it was
\* before that GET (nothing at all, or the body whose token the GET carried)
LastRequestUnanswered ==
    /\ InSession
    /\ \/ nrequests = 1 /\ res = NoResponse
       \/ nrequests >= 2 /\ res.nextPageToken = request.pageToken
\* the last GET produced a body that lacks a key the fetcher reads
LastResponseMalformed ==
    /\ InSession /\ ~LastRequestUnanswered
    /\ \/ nrequests = 1 /\ res.totalCount = None
       \/ res.studies = None

\* C11: no page is requested twice (the n-th request of a session asks for
\* page n), and a request that raised ends the call on the spot with that
\* error: nothing is returned and no later position of the call is reached.
C11_NoRetry ==
    /\ InSession => nrequests = RequestedPage(request)
    /\ LastRequestUnanswered => (pc = "idle" /\ err = "RequestException" /\ ret = None)
    /\ (InSession /\ err = "RequestException") => LastRequestUnanswered

\* C11 witness: the request for the last page has raised
C11_Witness ==
    /\ LastRequestUnanswered /\ nrequests = MaxPages /\ err = "RequestException"
    /\ Len(yielded) >= 1

\* C12: a body without totalCount (first page) or without studies (any page)
\* ends the call with KeyError: none of that body's records is yielded, the
\* session does not go on, and a refresh leaves both files as they were.
C12_MissingKeyIsFatal ==
    LastResponseMalformed =>
       /\ pc = "idle" /\ err = "KeyError" /\ ret = None
       /\ Len(yielded) = nserved - (IF res.studies = None THEN 0 ELSE Len(Get(res.studies)))
       /\ IsRefresh => (cache = disk0.cache /\ sample = disk0.sample /\ mtime = disk0.mtime)

\* C12 witness: a refresh received a first body with studies but no totalCount
C12_Witness ==
    /\ LastResponseMalformed /\ IsRefresh /\ nrequests = 1
    /\ res.totalCount = None /\ res.studies # None /\ Len(Get(res.studies)) >= 1

\* a step that issues a GET
IssuesRequest == nrequests' = nrequests + 1

\* C13: the first request of a session carries countTotal="true" and no
\* pageToken; every later request carries no countTotal and, as pageToken,
\* the non-empty nextPageToken of the body received just before it.
C13_RequestChain ==
    [][IssuesRequest =>
          IF nrequests = 0
          THEN request'.countTotal = Some("true") /\ request'.pageToken = None
          ELSE /\ request'.countTotal = None
               /\ request'.pageToken = res.nextPageToken
               /\ request'.pageToken # None /\ Len(Get(request'.pageToken)) > 0]_vars

\* C13 witness: the request for the last page has been sent with the token
\* that leads to it
C13_Witness ==
    /\ nrequests = MaxPages /\ request.countTotal = None
    /\ request.pageToken # None /\ Get(request.pageToken)[1] = MaxPages

\* C14: a GET is issued only when every record received so far has been
\* handed to the consumer, and issuing it hands out nothing; so when a
\* request raises, the consumer holds all records of the pages before it.
C14_Streams ==
    /\ []((InSession /\ err = "RequestException") => Len(yielded) = nserved)
    /\ [][IssuesRequest => (Len(yielded) = nserved /\ yielded' = yielded)]_vars

\* C14 witness: a caller iterating the generator holds the records of the
\* earlier pages when the request for the last page raises
C14_Witness ==
    /\ op = "iterate_download_studies" /\ err = "RequestException"
    /\ nrequests = MaxPages /\ Len(yielded) = nserved
    /\ nserved = (MaxPages - 1) * MaxPageLen

SessionRunning == pc \in {"start", "yield"}
\* the current page has been handed out completely
PageDone == pc = "yield" /\ pos = Len(Get(res.studies))

\* C16: what the fetcher does at the end of a page is decided by the token
\* alone, whatever totalCount said: with a non-empty token the next step is a
\* GET, without one the next step ends the session with no further GET; and
\* a running session always comes to an end, the token chain being finite.
C16_TokenChainDecides ==
    /\ [][PageDone =>
            IF res.nextPageToken # None /\ Len(Get(res.nextPageToken)) > 0
            THEN IssuesRequest
            ELSE nrequests' = nrequests /\ ~SessionRunning' /\ err' = err]_vars
    /\ SessionRunning ~> ~SessionRunning

\* C16 witness: the request for the last page was issued although the records
\* yielded already exceeded totalCount
C16_Witness ==
    /\ nrequests = MaxPages /\ pc = "yield" /\ pos = 0
    /\ total # None /\ Len(yielded) > Get(total)

\* C17: a body whose nextPageToken is the empty string ends the session as
\* a body without the key does: once its page is handed out the next step
\* ends the generator normally, with no GET and no error, and no request ever
\* carries an empty pageToken.
C17_EmptyTokenEnds ==
    /\ [](InSession => request.pageToken # Some(<<>>))
    /\ [][(PageDone /\ res.nextPageToken = Some(<<>>)) =>
            /\ nrequests' = nrequests /\ request' = request
            /\ err' = "none"
            /\ pc' = IF op = "iterate_download_studies" THEN "idle" ELSE "write_sample"]_vars

\* C17 witness: a session has ended normally on a last page whose token is
\* the empty string
C17_Witness ==
    /\ op = "iterate_download_studies" /\ pc = "idle" /\ err = "none"
    /\ nrequests = MaxPages /\ res.nextPageToken = Some(<<>>)
    /\ Len(yielded) = nserved /\ nserved >= 1

\* C18: get_studies(force=True) never fails on reading the cache; over a
\* cache file that cannot be read, a forced refresh whose download succeeds
\* returns the downloaded list and leaves a readable cache holding it; and a
\* get_studies(force=False) that follows a successful forced refresh returns
\* that list from the cache without any request.
C18_ForcedRefreshRecovers ==
    /\ (op = "get_studies" /\ force) => err # "ReadError"
    /\ (op = "get_studies" /\ force /\ disk0.cache # None /\ ~Readable(disk0.cache)
          /\ pc = "idle" /\ SessionExhausted) =>
          /\ err = "none" /\ ret = Some(Downloaded)
          /\ Readable(cache) /\ Get(cache).data = Downloaded
    /\ (prev.op = "get_studies" /\ prev.force /\ prev.err = "none"
          /\ op = "get_studies" /\ ~force /\ pc = "idle") =>
          /\ err = "none" /\ ret = prev.ret /\ nrequests = 0

\* C18 witness: a forced refresh over a corrupt cache has succeeded with a
\* non-empty list
C18_Witness ==
    /\ op = "get_studies" /\ force /\ disk0.cache = Some(CorruptFile)
    /\ pc = "idle" /\ err = "none" /\ nserved >= 1 /\ Readable(cache)

====
